---- MODULE Spec2Model ----
(***************************************************************************)
(* Resonance: the transcription job pipeline.                              *)
(*                                                                         *)
(*   renderer (app.js)   state.jobs, handleFiles, the progress listener    *)
(*   main (main.js)      the 'transcribe' IPC handler and its relocation   *)
(*   whisper (whisper.js) ensureEnvironment and transcribe                 *)
(*                                                                         *)
(* One action is one turn of a JavaScript event loop: a handler together   *)
(* with every microtask continuation it triggers.  The main process sends  *)
(* its progress events and its replies to the renderer over one ordered    *)
(* channel.  Progress values are kept as multiples of 1/Scale so that      *)
(* 30 + pct * 0.65 is exact.                                               *)
(***************************************************************************)
EXTENDS Integers, Sequences, FiniteSets, TLC

VARIABLES
    venv,          \* the environment on disk: "nodir" (no whisper-env directory),
                   \* "absent" (whisper-env without venv), "partial", "installed"
    fs,            \* the files of the source and destination directories
    pc,            \* where each job's run stands in the main process
    req,           \* the options each job's 'transcribe' request carries
    stderr,        \* transcribe's stderr accumulator, one chunk per element
    lastProgress,  \* transcribe's lastProgress
    exitCode,      \* the code the child's 'close' event will carry
    produced,      \* the formats the engine wrote in this run
    promise,       \* what transcribe's promise was settled with, NoResult while pending
    result,        \* what the 'transcribe' IPC handler returned
    sent,          \* every progress event sent for a job, in order
    chan,          \* messages from main to renderer, in flight
    jobs,          \* the renderer's state.jobs
    mainWindow     \* main.js mainWindow: TRUE a window, FALSE null

vars == <<venv, fs, pc, req, stderr, lastProgress, exitCode, produced, promise, result,
          sent, chan, jobs, mainWindow>>

----------------------------------------------------------------------------
(* Bounds of the model *)

MaxJobs == 2
MaxChunks == 2

Jobs == 1..MaxJobs

----------------------------------------------------------------------------
(* Values *)

Scale == 20

\* n percent, as a progress value
Pct(n) == n * Scale

Formats == {"srt", "txt", "md"}
Aux == {"vtt", "tsv", "json"}
Exts == Formats \cup Aux

SrcDir == "src"
DstDir == "dst"
NoDir == ""
Dirs == {SrcDir, DstDir}

\* the media files a user can submit; all of them live in SrcDir
Paths == {"a.mp3", "a.wav", "b.mp3"}

\* path.basename(filePath, path.extname(filePath))
baseName(p) == IF p = "b.mp3" THEN "b" ELSE "a"

Stems == {baseName(p) : p \in Paths}

File(d, s, e) == [dir |-> d, stem |-> s, ext |-> e]
Files == {p \in [dir : Dirs, stem : Stems, ext : Exts] : p.dir = DstDir => p.ext \in Formats}
Null == [dir |-> "", stem |-> "", ext |-> ""]

\* a file's content is a sequence of text pieces; <<>> stands for no file
Absent == << >>
existsSync(f, p) == f[p] # Absent
unlinkSync(f, p) == [f EXCEPT ![p] = Absent]
writeFileSync(f, p, c) == [f EXCEPT ![p] = c]

\* what the engine writes for job j in format e, and what an earlier run left
EngineContent(j, e) == <<e, ToString(j)>>
OldContent(e) == <<e, "old">>

\* the stderr chunks the engine can print; only some carry "<digits>%|"
Chunks == {"Detecting language", "50%|", "100%|"}
NoMatch == -1

\* output.match(/(\d+)%\|/) followed by parseInt(match[1], 10)
matchPct(c) ==
    IF c = "50%|" THEN 50
    ELSE IF c = "100%|" THEN 100
    ELSE NoMatch

NoError == << >>

NoResult ==
    [returned |-> FALSE, success |-> FALSE, srtPath |-> Null, txtPath |-> Null,
     mdPath |-> Null, error |-> NoError]

Failure(msg) ==
    [returned |-> TRUE, success |-> FALSE, srtPath |-> Null, txtPath |-> Null,
     mdPath |-> Null, error |-> msg]

NoReq == [filePath |-> "", outputDir |-> NoDir, formats |-> {}]

\* a 'transcription-progress' message
Progress(j, p, s, e) ==
    [type |-> "progress", job |-> j, filePath |-> req[j].filePath,
     progress |-> p, status |-> s, error |-> e, result |-> NoResult]

\* the reply to ipcRenderer.invoke('transcribe')
Reply(j, r) ==
    [type |-> "reply", job |-> j, filePath |-> req[j].filePath,
     progress |-> 0, status |-> "", error |-> NoError, result |-> r]

\* what a progress message leaves in the history of its job
Event(m) == [progress |-> m.progress, status |-> m.status, error |-> m.error]

OnlyProgress(ms) == SelectSeq(ms, LAMBDA m : m.type = "progress")

EventsOf(ms) == [i \in 1..Len(OnlyProgress(ms)) |-> Event(OnlyProgress(ms)[i])]

----------------------------------------------------------------------------
(* main.js: the callbacks of the 'transcribe' handler *)

\* onProgress: mainWindow.webContents.send with data.progress and data.status
onProgress(j, p, s) == Progress(j, p, s, NoError)

\* onStatus: always progress 0
onStatus(j, s) == Progress(j, 0, s, NoError)

\* the handler's catch block: a 'Failed' event with progress 0, then the failure
CatchInMain(j, msg) ==
    << Progress(j, 0, "Failed", msg), Reply(j, Failure(msg)) >>

\* whisper.js transcribe's catch block: onProgress drops data.error
CatchInTranscribe(j) == << onProgress(j, 0, "Failed") >>

----------------------------------------------------------------------------
(* whisper.js: transcribe, from the end of ensureEnvironment to spawn *)

needsTxt(formats) == "txt" \in formats \/ "md" \in formats
needsSrt(formats) == "srt" \in formats

\* a selection that always asks for everything
outputFormatAll(formats) == "all"

outputFormat(formats) ==
    IF needsTxt(formats) /\ needsSrt(formats) THEN "all"
    ELSE IF needsSrt(formats) THEN "srt"
    ELSE IF needsTxt(formats) THEN "txt"
    ELSE "srt"

\* the files whisper writes for --output_format
ModeFiles(mode) ==
    IF mode = "all" THEN {"txt", "vtt", "srt", "tsv", "json"}
    ELSE {mode}

SpawnError == << "spawn E2BIG" >>
LaunchError == << "spawn ENOENT" >>

\* 'Starting transcription...' 10, 'Transcribing...' 30, then spawn
StartMsgs(j) ==
    << onProgress(j, Pct(10), "Starting transcription..."),
       onProgress(j, Pct(30), "Transcribing...") >>

\* JavaScript runs a turn to completion: while the continuation of a settled
\* promise is pending no other handler of the main process starts
NoTurnPending == \A k \in Jobs : pc[k] # "settling"

\* what this turn sends: appended to the channel and to the job's history.
\* The main process never reads what the renderer holds and the channel keeps
\* the order of sending, so a turn of the main process can be moved after the
\* deliveries that are pending without changing what either side sees: a turn
\* is taken once the renderer has caught up.
Send(j, ms) ==
    /\ ms # << >> => chan = << >>
    /\ chan' = chan \o ms
    /\ sent' = [sent EXCEPT ![j] = @ \o EventsOf(ms)]

\* transcribe lines 114-159, after `before` was sent in the same turn.
\* launch = "ok": the child runs; "throw": spawn throws inside the promise
\* executor; "enoent": the child emits 'error' on the next tick and 'close'
\* later.  A rejection of the returned promise is not caught by transcribe's
\* own try/catch (it is returned, not awaited), only by the IPC handler's.
Spawn(j, launch, before) ==
    LET ms == before \o StartMsgs(j)
    IN  IF launch = "ok"
        THEN /\ Send(j, ms)
             /\ pc' = [pc EXCEPT ![j] = "running"]
             /\ lastProgress' = [lastProgress EXCEPT ![j] = Pct(30)]
             /\ UNCHANGED <<promise, result, exitCode>>
        ELSE LET err == IF launch = "throw" THEN SpawnError ELSE LaunchError
             IN  /\ Send(j, ms \o CatchInMain(j, err))
                 /\ pc' = [pc EXCEPT ![j] = IF launch = "throw" THEN "done" ELSE "exited"]
                 /\ exitCode' = [exitCode EXCEPT ![j] = IF launch = "throw" THEN @ ELSE -2]
                 /\ promise' = [promise EXCEPT ![j] = Failure(err)]
                 /\ result' = [result EXCEPT ![j] = Failure(err)]
                 /\ UNCHANGED lastProgress

Launches == {"ok", "throw", "enoent"}

----------------------------------------------------------------------------
(* whisper.js: ensureEnvironment *)

\* an error that does not say which tool is missing
PythonMissingVague == << "Failed to set up whisper: ", "Command failed" >>

PythonMissing == << "Python 3 not found. Please install Python 3.9+ from python.org or via Homebrew." >>
FfmpegMissing == << "FFmpeg not found. Residency requires FFmpeg for media processing. Please install it (e.g., brew install ffmpeg)." >>
SetupFailed == << "Failed to set up whisper: ", "Command failed" >>

SettingUp(j) == onStatus(j, "Setting up Python environment (first run)...")
Installing(j) == onStatus(j, "Installing whisper (this may take a few minutes)...")

Outcomes == {"nopython", "noffmpeg", "venvfail", "pipfail", "rmfail", "ok"}

\* a cached check that never finds the interpreter
pythonBinNever == FALSE

\* fs.existsSync(pythonBin), line 55: python -m venv has written the interpreter
pythonBinExists == venv \in {"partial", "installed"}

\* the 'transcribe' IPC handler up to ensureEnvironment's first await: with
\* pythonBin on disk ensureEnvironment returns at once and the turn goes on to
\* spawn; without it the turn ends at `await fs.promises.mkdir`, which
\* creates the whisper-env directory
TranscribeHandler(j, launch) ==
    /\ pc[j] = "invoked"
    /\ NoTurnPending
    /\ IF pythonBinExists
       THEN /\ Spawn(j, launch, << >>)
            /\ venv' = venv
       ELSE /\ pc' = [pc EXCEPT ![j] = "mkdir"]
            /\ venv' = IF venv = "nodir" THEN "absent" ELSE venv
            /\ UNCHANGED <<lastProgress, promise, result, exitCode, sent, chan>>
    /\ UNCHANGED <<fs, req, stderr, produced, jobs, mainWindow>>

\* ensureEnvironment after the mkdir: prerequisite checks, venv creation, pip
\* install, all synchronous (execSync); pythonBin is not looked at again
Provision(j, outcome, launch) ==
    /\ pc[j] = "mkdir"
    /\ NoTurnPending
    /\ IF outcome = "ok"
       THEN /\ venv' = "installed"
            /\ Spawn(j, launch, << SettingUp(j), Installing(j) >>)
       ELSE LET err == IF outcome = "nopython" THEN PythonMissing
                       ELSE IF outcome = "noffmpeg" THEN FfmpegMissing
                       ELSE SetupFailed
                before == IF outcome \in {"nopython", "noffmpeg"} THEN << >>
                          ELSE IF outcome = "venvfail" THEN << SettingUp(j) >>
                          ELSE << SettingUp(j), Installing(j) >>
            IN  /\ Send(j, before \o CatchInTranscribe(j) \o CatchInMain(j, err))
                /\ venv' = IF outcome \in {"nopython", "noffmpeg"} THEN venv
                           ELSE IF outcome = "rmfail"
                                THEN (IF venv = "installed" THEN "installed" ELSE "partial")
                                ELSE "absent"
                /\ pc' = [pc EXCEPT ![j] = "done"]
                /\ promise' = [promise EXCEPT ![j] = Failure(err)]
                /\ result' = [result EXCEPT ![j] = Failure(err)]
                /\ UNCHANGED <<lastProgress, exitCode>>
    /\ UNCHANGED <<fs, req, stderr, produced, jobs, mainWindow>>

----------------------------------------------------------------------------
(* whisper.js: the child's streams and events *)

Factor == 13

\* a stream that still delivers data when the job is over
StreamNeverEnds(j) == pc[j] \in {"running", "done"}

\* the child's stderr delivers 'data' while the child runs; ChildProcess emits
\* 'close' only when the process has ended and its stdio streams are closed
StreamOpen(j) == pc[j] = "running"

\* whisper.stderr.on('data'): lastProgress = 30 + pct * 0.65; without a window
\* onProgress throws after lastProgress was assigned
StderrData(j, c) ==
    /\ StreamOpen(j)
    /\ NoTurnPending
    /\ Len(stderr[j]) < MaxChunks
    /\ stderr' = [stderr EXCEPT ![j] = Append(@, c)]
    /\ IF matchPct(c) # NoMatch
       THEN LET pct == matchPct(c)
                p == Pct(30) + pct * Factor
            IN  /\ lastProgress' = [lastProgress EXCEPT ![j] = p]
                /\ Send(j, IF mainWindow
                            THEN << onProgress(j, p, "Transcribing... " \o ToString(pct) \o "%") >>
                            ELSE << >>)
       ELSE UNCHANGED <<lastProgress, sent, chan>>
    /\ UNCHANGED <<venv, fs, pc, req, exitCode, produced, promise, result, jobs, mainWindow>>

OutFile(j, e) == File(SrcDir, baseName(req[j].filePath), e)

\* the engine writes the files `written` next to the source and exits with `code`
EngineExit(j, written, code) ==
    /\ pc[j] = "running"
    /\ written \subseteq ModeFiles(outputFormat(req[j].formats))
    /\ fs' = [p \in Files |->
                IF p.dir = SrcDir /\ p.stem = baseName(req[j].filePath) /\ p.ext \in written
                THEN EngineContent(j, p.ext) ELSE fs[p]]
    /\ exitCode' = [exitCode EXCEPT ![j] = code]
    /\ produced' = [produced EXCEPT ![j] = written]
    /\ pc' = [pc EXCEPT ![j] = "exited"]
    /\ UNCHANGED <<venv, req, stderr, lastProgress, promise, result, sent, chan, jobs, mainWindow>>

ExitCodes == {0, 1}

\* the markdown template of line 196
\* the wrapper without its header
MarkdownBare(p, text) == text

Markdown(p, text) == << "# Transcription", "**File:** " \o p, "---" >> \o text

Remove(f, p) == IF existsSync(f, p) THEN unlinkSync(f, p) ELSE f

\* the 'close' handler, lines 193-198: markdown from the plaintext file
CreateMd(j, f) ==
    IF "md" \in req[j].formats /\ existsSync(f, OutFile(j, "txt"))
    THEN writeFileSync(f, OutFile(j, "md"), Markdown(req[j].filePath, f[OutFile(j, "txt")]))
    ELSE f

\* a cleanup that keeps what was not asked for
CleanUnwantedNone(j, f) == f

\* lines 200-202: formats the engine wrote that were not asked for
CleanUnwanted(j, f) ==
    LET f1 == IF "srt" \notin req[j].formats THEN Remove(f, OutFile(j, "srt")) ELSE f
    IN  IF "txt" \notin req[j].formats THEN Remove(f1, OutFile(j, "txt")) ELSE f1

\* a cleanup that leaves the json file
CleanExtraNoJson(j, f) == Remove(Remove(f, OutFile(j, "vtt")), OutFile(j, "tsv"))

\* lines 203-206: the formats the UI does not offer
CleanExtra(j, f) ==
    Remove(Remove(Remove(f, OutFile(j, "vtt")), OutFile(j, "tsv")), OutFile(j, "json"))

Finalize(j, f) == CleanExtra(j, CleanUnwanted(j, CreateMd(j, f)))

\* line 208
Usable(j, f) ==
    \/ exitCode[j] = 0
    \/ existsSync(f, OutFile(j, "srt"))
    \/ existsSync(f, OutFile(j, "txt"))

Kept(j, f, e) == IF e \in req[j].formats /\ existsSync(f, OutFile(j, e)) THEN OutFile(j, e) ELSE Null

\* lines 211-216
Resolved(j, f) ==
    [returned |-> TRUE, success |-> TRUE, srtPath |-> Kept(j, f, "srt"),
     txtPath |-> Kept(j, f, "txt"), mdPath |-> Kept(j, f, "md"), error |-> NoError]

\* a rejection that drops what the engine printed
EngineFailedUnknown(j) == << "Transcription failed: ", "Unknown error" >>

\* line 218
EngineFailed(j) ==
    << "Transcription failed: " >> \o (IF stderr[j] = << >> THEN << "Unknown error" >> ELSE stderr[j])

----------------------------------------------------------------------------
(* main.js: relocation to the custom output directory, lines 118-140 *)

\* a path as text, and the message of the error copyFileSync throws
PathText(p) == p.dir \o "/" \o p.stem \o "." \o p.ext
CopyError(from, to) == << "EACCES: permission denied, copyfile", PathText(from), PathText(to) >>

\* fs.copyFileSync: copying a file onto itself leaves it as it is
copyFileSync(f, from, to) == IF from = to THEN f ELSE [f EXCEPT ![to] = f[from]]

PathOf(r, e) == IF e = "srt" THEN r.srtPath ELSE IF e = "txt" THEN r.txtPath ELSE r.mdPath

SetPath(r, e, p) ==
    IF e = "srt" THEN [r EXCEPT !.srtPath = p]
    ELSE IF e = "txt" THEN [r EXCEPT !.txtPath = p]
    ELSE [r EXCEPT !.mdPath = p]

\* one `if (result.xPath) { copyFileSync; unlinkSync; result.xPath = ... }`;
\* st.err is the exception thrown so far; the copy of format failExt throws
MoveOne(st, j, e, failExt) ==
    LET from == PathOf(st.res, e)
        to == File(req[j].outputDir, baseName(req[j].filePath), e)
    IN  IF st.err # NoError \/ from = Null THEN st
        ELSE IF e = failExt THEN [st EXCEPT !.err = CopyError(from, to)]
        ELSE [fs |-> unlinkSync(copyFileSync(st.fs, from, to), from),
              res |-> SetPath(st.res, e, to),
              err |-> NoError]

Relocate(j, f, r, failExt) ==
    LET st0 == [fs |-> f, res |-> r, err |-> NoError]
    IN  IF req[j].outputDir # NoDir /\ r.success
        THEN MoveOne(MoveOne(MoveOne(st0, j, "srt", failExt), j, "txt", failExt), j, "md", failExt)
        ELSE st0

NoFail == "none"

\* a filesystem call of the 'close' handler that throws: the markdown write of
\* line 197 or the first unlink of lines 201-206
FsFaults == {"none", "write", "unlink"}

\* the call that is to throw is one the handler makes
CanFail(j, fault) ==
    \/ fault = "none"
    \/ fault = "write" /\ CreateMd(j, fs) # fs
    \/ fault = "unlink" /\ CleanExtra(j, CleanUnwanted(j, CreateMd(j, fs))) # CreateMd(j, fs)

\* the files as the handler leaves them
Finalized(j, f, fault) ==
    IF fault = "write" THEN f
    ELSE IF fault = "unlink" THEN CreateMd(j, f)
    ELSE Finalize(j, f)

\* the child's 'close' event, lines 182-220: markdown, cleanup, then
\* 'Completed' and resolve, or reject; settling a settled promise does nothing.
\* Nothing in the handler catches: a filesystem call that throws, or the
\* 'Completed' onProgress of line 209 with mainWindow null, ends the turn
\* before resolve or reject is reached ("thrown").
CloseHandler(j, fault) ==
    /\ pc[j] = "exited"
    /\ NoTurnPending
    /\ CanFail(j, fault)
    /\ LET f == Finalized(j, fs, fault)
           completed == fault = "none" /\ Usable(j, f)
           threw == fault # "none" \/ (completed /\ ~mainWindow)
       IN  /\ fs' = f
           /\ Send(j, IF completed /\ mainWindow
                      THEN << onProgress(j, Pct(100), "Completed") >> ELSE << >>)
           /\ promise' = [promise EXCEPT ![j] =
                            IF @ # NoResult \/ threw THEN @
                            ELSE IF completed THEN Resolved(j, f)
                            ELSE Failure(EngineFailed(j))]
           /\ pc' = [pc EXCEPT ![j] = IF promise[j] # NoResult THEN "done"
                                      ELSE IF threw THEN "thrown" ELSE "settling"]
    /\ UNCHANGED <<venv, req, stderr, lastProgress, exitCode, produced, result, jobs, mainWindow>>

\* the 'close' event when every filesystem call succeeds
Close(j) == CloseHandler(j, "none")

\* the IPC handler after `await whisper.transcribe`, lines 118-152: relocation
\* and return, or the catch block, whose send throws with mainWindow null so
\* that the handler returns nothing ("thrown")
Return(j, failExt) ==
    /\ pc[j] = "settling"
    /\ LET st == Relocate(j, fs, promise[j], failExt)
           err == IF promise[j].success THEN st.err ELSE promise[j].error
       IN  /\ fs' = st.fs
           /\ IF promise[j].success /\ st.err = NoError
              THEN /\ Send(j, IF mainWindow THEN << Reply(j, st.res) >> ELSE << >>)
                   /\ result' = [result EXCEPT ![j] = st.res]
                   /\ pc' = [pc EXCEPT ![j] = "done"]
              ELSE IF mainWindow
              THEN /\ Send(j, CatchInMain(j, err))
                   /\ result' = [result EXCEPT ![j] = Failure(err)]
                   /\ pc' = [pc EXCEPT ![j] = "done"]
              ELSE /\ Send(j, << >>)
                   /\ result' = result
                   /\ pc' = [pc EXCEPT ![j] = "thrown"]
    /\ UNCHANGED <<venv, req, stderr, lastProgress, exitCode, produced, promise, jobs, mainWindow>>

\* main.js lines 35-37, the window's 'closed' event while a run is going on:
\* mainWindow = null; the renderer goes with the window, and with it
\* state.jobs and what was on its way to it
WindowClosed ==
    /\ mainWindow
    /\ NoTurnPending
    /\ \A j \in Jobs : pc[j] \notin {"invoked", "mkdir", "pending"}
    /\ \E j \in Jobs : pc[j] \in {"running", "exited"}
    /\ mainWindow' = FALSE
    /\ chan' = << >>
    /\ jobs' = << >>
    /\ UNCHANGED <<venv, fs, pc, req, stderr, lastProgress, exitCode, produced, promise, result, sent>>

----------------------------------------------------------------------------
(* app.js: the renderer *)

\* getSelectedFormats: the ticked boxes, ['srt'] when none is ticked
getSelectedFormats(checked) == IF checked # {} THEN checked ELSE {"srt"}

NewJob(j, p) ==
    [id |-> j, filePath |-> p, progress |-> 0, status |-> "queued", error |-> NoError,
     srtPath |-> Null, txtPath |-> Null, mdPath |-> Null]

\* handleFiles for one dropped file, up to `await window.whisperAPI.transcribe`
HandleFiles(j, p, dir, checked) ==
    /\ mainWindow
    /\ pc[j] = "idle"
    /\ \A i \in Jobs : i < j => pc[i] # "idle"
    /\ jobs' = << NewJob(j, p) >> \o jobs
    /\ req' = [req EXCEPT ![j] = [filePath |-> p, outputDir |-> dir,
                                   formats |-> getSelectedFormats(checked)]]
    /\ pc' = [pc EXCEPT ![j] = "invoked"]
    /\ UNCHANGED <<venv, fs, stderr, lastProgress, exitCode, produced, promise, result, sent, chan,
                   mainWindow>>

\* handleFiles for several files dropped together: the loop registers the
\* first file and suspends at its `await`; the others wait for their turn of
\* the loop ("pending").  The options are taken as they stand at the drop.
DropFiles(ps, dir, checked) ==
    /\ mainWindow
    /\ Len(ps) \in 2..MaxJobs
    /\ \A j \in Jobs : pc[j] = "idle"
    /\ jobs' = << NewJob(1, ps[1]) >> \o jobs
    /\ req' = [j \in Jobs |->
                 IF j <= Len(ps)
                 THEN [filePath |-> ps[j], outputDir |-> dir, formats |-> getSelectedFormats(checked)]
                 ELSE req[j]]
    /\ pc' = [j \in Jobs |-> IF j = 1 THEN "invoked" ELSE IF j <= Len(ps) THEN "pending" ELSE pc[j]]
    /\ UNCHANGED <<venv, fs, stderr, lastProgress, exitCode, produced, promise, result, sent, chan,
                   mainWindow>>

\* window.whisperAPI.transcribe(options) as the preload script exposes it: the
\* options reach the IPC handler as they are, formats included
InvokeTranscribe(j, p, dir, formats) ==
    /\ mainWindow
    /\ pc[j] = "idle"
    /\ \A i \in Jobs : i < j => pc[i] # "idle"
    /\ req' = [req EXCEPT ![j] = [filePath |-> p, outputDir |-> dir, formats |-> formats]]
    /\ pc' = [pc EXCEPT ![j] = "invoked"]
    /\ UNCHANGED <<venv, fs, stderr, lastProgress, exitCode, produced, promise, result,
                   sent, chan, jobs, mainWindow>>

\* state.jobs.find(j => j.filePath === data.filePath): the first match, 0 if none
Find(js, p) ==
    IF \E i \in 1..Len(js) : js[i].filePath = p
    THEN CHOOSE i \in 1..Len(js) :
            /\ js[i].filePath = p
            /\ \A k \in 1..(i - 1) : js[k].filePath # p
    ELSE 0

\* the body of the progress listener, on the job it found
Update(job, data) ==
    LET j1 == [job EXCEPT !.progress = data.progress, !.status = data.status]
        j2 == IF data.error # NoError THEN [j1 EXCEPT !.error = data.error] ELSE j1
        j3 == IF data.progress = Pct(100) THEN [j2 EXCEPT !.status = "completed"] ELSE j2
    IN  IF data.error # NoError THEN [j3 EXCEPT !.status = "failed"] ELSE j3

setupProgressListener(js, data) ==
    LET i == Find(js, data.filePath)
    IN  IF i = 0 THEN js ELSE [js EXCEPT ![i] = Update(js[i], data)]

\* handleFiles after the await: it holds its own job object
Settle(job, r) ==
    IF r.success
    THEN [job EXCEPT !.srtPath = r.srtPath, !.txtPath = r.txtPath, !.mdPath = r.mdPath]
    ELSE [job EXCEPT !.status = "failed", !.error = r.error]

AfterTranscribe(js, id, r) ==
    [i \in 1..Len(js) |-> IF js[i].id = id THEN Settle(js[i], r) ELSE js[i]]

\* the file that waits behind job j in the same handleFiles loop, 0 if none
NextInLoop(j) == IF j + 1 \in Jobs /\ pc[j + 1] = "pending" THEN j + 1 ELSE 0

\* the renderer takes the next message from the main process: a progress
\* event goes to the listener; a reply resumes handleFiles after its await,
\* which settles the job and goes round the loop to the next file, if any
Deliver ==
    /\ mainWindow
    /\ chan # << >>
    /\ LET m == Head(chan)
           k == NextInLoop(m.job)
       IN  IF m.type = "progress"
           THEN /\ jobs' = setupProgressListener(jobs, m)
                /\ pc' = pc
           ELSE IF k = 0
           THEN /\ jobs' = AfterTranscribe(jobs, m.job, m.result)
                /\ pc' = pc
           ELSE /\ jobs' = << NewJob(k, req[k].filePath) >> \o AfterTranscribe(jobs, m.job, m.result)
                /\ pc' = [pc EXCEPT ![k] = "invoked"]
    /\ chan' = Tail(chan)
    /\ UNCHANGED <<venv, fs, req, stderr, lastProgress, exitCode, produced, promise, result, sent,
                   mainWindow>>

----------------------------------------------------------------------------
(* Specifications *)

\* output files an earlier run left next to a.*
InitFs(old) ==
    [p \in Files |-> IF p.dir = SrcDir /\ p.stem = "a" /\ p.ext \in old
                     THEN OldContent(p.ext) ELSE Absent]

Init ==
    /\ venv \in {"nodir", "installed"}
    /\ \E old \in SUBSET Formats : fs = InitFs(old)
    /\ pc = [j \in Jobs |-> "idle"]
    /\ req = [j \in Jobs |-> NoReq]
    /\ stderr = [j \in Jobs |-> << >>]
    /\ lastProgress = [j \in Jobs |-> 0]
    /\ exitCode = [j \in Jobs |-> 0]
    /\ produced = [j \in Jobs |-> {}]
    /\ promise = [j \in Jobs |-> NoResult]
    /\ result = [j \in Jobs |-> NoResult]
    /\ sent = [j \in Jobs |-> << >>]
    /\ chan = << >>
    /\ jobs = << >>
    /\ mainWindow = TRUE

OutputDirs == {NoDir, DstDir, SrcDir}

\* the steps of the main process for job j, the engine printing chunks of cs
Main(j, cs) ==
    \/ \E l \in Launches : TranscribeHandler(j, l)
    \/ \E o \in Outcomes, l \in Launches : Provision(j, o, l)
    \/ \E c \in cs : StderrData(j, c)
    \/ \E written \in SUBSET Exts, code \in ExitCodes : EngineExit(j, written, code)
    \/ Close(j)
    \/ \E e \in Formats \cup {NoFail} : Return(j, e)

\* One file, every choice of formats and output directory, every set of files
\* the engine can leave; the engine's progress bar prints one kind of line.
Next ==
    \/ \E dir \in OutputDirs, checked \in SUBSET Formats :
          HandleFiles(1, "a.mp3", dir, checked)
    \/ Main(1, {"50%|"})
    \/ Deliver

Spec == Init /\ [][Next]_vars

\* One file, subtitles only, every sequence of stderr chunks.
NextEvents ==
    \/ \E dir \in {NoDir, DstDir} : HandleFiles(1, "a.mp3", dir, {"srt"})
    \/ Main(1, Chunks)
    \/ Deliver

SpecEvents == Init /\ [][NextEvents]_vars

\* no output files left by earlier runs
InitJobs ==
    /\ Init
    /\ fs = InitFs({})

\* Several files in flight at once, the second possibly the first one again
\* or one with the same base name; subtitles or markdown; a silent engine.
NextJobs ==
    \/ \E j \in Jobs, p \in Paths, dir \in {NoDir, DstDir}, checked \in {{"srt"}, {"md"}} :
          /\ j = 1 => p = "a.mp3"
          /\ HandleFiles(j, p, dir, checked)
    \/ \E j \in Jobs, l \in {"ok", "enoent"} : TranscribeHandler(j, l)
    \/ \E j \in Jobs, o \in {"ok", "pipfail", "rmfail"} : Provision(j, o, "ok")
    \/ \E j \in Jobs, written \in SUBSET Exts, code \in ExitCodes : EngineExit(j, written, code)
    \/ \E j \in Jobs : Close(j)
    \/ \E j \in Jobs, e \in Formats \cup {NoFail} : Return(j, e)
    \/ Deliver

SpecJobs == InitJobs /\ [][NextJobs]_vars

\* One request made of the IPC handler directly, with subtitles or with an
\* empty list of formats.
NextIpc ==
    \/ \E formats \in {{}, {"srt"}} : InvokeTranscribe(1, "a.mp3", NoDir, formats)
    \/ Main(1, {"50%|"})
    \/ Deliver

SpecIpc == Init /\ [][NextIpc]_vars

\* Two files dropped together, subtitles only, a silent engine.
NextBatch ==
    \/ DropFiles(<< "a.mp3", "b.mp3" >>, NoDir, {"srt"})
    \/ \E j \in Jobs : TranscribeHandler(j, "ok")
    \/ \E j \in Jobs : Provision(j, "ok", "ok")
    \/ \E j \in Jobs, written \in SUBSET {"srt"}, code \in ExitCodes : EngineExit(j, written, code)
    \/ \E j \in Jobs : Close(j)
    \/ \E j \in Jobs : Return(j, NoFail)
    \/ Deliver

SpecBatch == InitJobs /\ [][NextBatch]_vars

\* The same file submitted again and again by separate drops, subtitles only,
\* an engine that succeeds; provisioning succeeds or fails at the install.
NextCalls ==
    \/ \E j \in Jobs : HandleFiles(j, "a.mp3", NoDir, {"srt"})
    \/ \E j \in Jobs : TranscribeHandler(j, "ok")
    \/ \E j \in Jobs, o \in {"ok", "pipfail"} : Provision(j, o, "ok")
    \/ \E j \in Jobs : EngineExit(j, {"srt"}, 0)
    \/ \E j \in Jobs : Close(j)
    \/ \E j \in Jobs : Return(j, NoFail)
    \/ Deliver

SpecCalls == InitJobs /\ [][NextCalls]_vars

\* Runs to their end with an installed environment and no output directory:
\* the window may be closed while a run is going on and a filesystem call of
\* the 'close' handler may throw.
InitFinish ==
    /\ InitJobs
    /\ venv = "installed"

NextFinish ==
    \/ \E j \in Jobs, checked \in {{"srt"}, {"md"}} :
          HandleFiles(j, IF j = 1 THEN "a.mp3" ELSE "b.mp3", NoDir, checked)
    \/ \E j \in Jobs, l \in {"ok", "enoent"} : TranscribeHandler(j, l)
    \/ \E j \in Jobs : StderrData(j, "50%|")
    \/ \E j \in Jobs, written \in SUBSET {"srt", "txt", "json"}, code \in ExitCodes :
          EngineExit(j, written, code)
    \/ \E j \in Jobs, fault \in FsFaults : CloseHandler(j, fault)
    \/ \E j \in Jobs : Return(j, NoFail)
    \/ Deliver
    \/ WindowClosed

\* The event loop of the main process runs every callback that is queued
\* (the IPC handler, the child's 'close', the continuation of a settled
\* promise) and the renderer's runs every message it was sent.
SpecFinish ==
    /\ InitFinish
    /\ [][NextFinish]_vars
    /\ \A j \in Jobs : WF_vars(\E l \in {"ok", "enoent"} : TranscribeHandler(j, l))
    /\ \A j \in Jobs : WF_vars(\E fault \in FsFaults : CloseHandler(j, fault))
    /\ \A j \in Jobs : WF_vars(Return(j, NoFail))
    /\ WF_vars(Deliver)

----------------------------------------------------------------------------
(* The claims *)

\* C1: for every job, the progress values of the events sent for it (setup
\* status, 'Starting', 'Transcribing', the engine's percentages, 'Completed',
\* 'Failed') never decrease along the sequence.
C1_ProgressNonDecreasing ==
    \A j \in Jobs : \A i \in 1..(Len(sent[j]) - 1) :
        sent[j][i].progress <= sent[j][i + 1].progress

\* C2: in every state of the registry a job's progress is 100 exactly when
\* its status is completed.
C2_HundredIffCompleted ==
    \A i \in 1..Len(jobs) :
        (jobs[i].progress = Pct(100)) <=> (jobs[i].status = "completed")

\* the step in which job j's 'close' handler runs, and the one in which the
\* IPC handler returns after transcribe's promise was settled
CloseStep(j) == pc[j] = "exited" /\ pc'[j] # "exited"
ReturnStep(j) == pc[j] = "settling" /\ pc'[j] = "done"

Last(q) == q[Len(q)]

\* s occurs in msg as a run of consecutive pieces
Contains(msg, s) ==
    \E i \in 1..(Len(msg) + 1) :
        /\ i + Len(s) - 1 <= Len(msg)
        /\ SubSeq(msg, i, i + Len(s) - 1) = s

HasCompleted(q) == \E i \in 1..Len(q) : q[i].progress = Pct(100) \/ q[i].status = "Completed"

\* C3: once the registry shows a job completed or failed, no later event or
\* result changes that job's status.
C3_TerminalAbsorbing ==
    [][\A i \in 1..Len(jobs) :
          jobs[i].status \in {"completed", "failed"}
          => \A k \in 1..Len(jobs') :
                jobs'[k].id = jobs[i].id => jobs'[k].status = jobs[i].status]_vars

\* C4: when the engine exits with a nonzero code and a requested artifact
\* (srt, txt or the synthesized md) is on disk after the 'close' handler's
\* reconciliation, transcribe reports Completed and resolves with success,
\* listing that artifact.
C4_PartialOutputIsSuccess ==
    [][\A j \in Jobs : \A e \in Formats :
          ( /\ CloseStep(j)
            /\ exitCode[j] > 0
            /\ e \in req[j].formats
            /\ existsSync(fs', OutFile(j, e)) )
          => /\ promise'[j].success
             /\ PathOf(promise'[j], e) = OutFile(j, e)
             /\ sent'[j] # << >> /\ Last(sent'[j]).status = "Completed"]_vars

\* C5: when the engine exits with a nonzero code and no requested artifact is
\* on disk after reconciliation, transcribe rejects without a 'Completed'
\* event, the error message holds the captured stderr text, and the IPC
\* handler reports 'Failed' and returns that error.
C5_NoOutputIsFailure ==
    [][\A j \in Jobs :
          /\ ( /\ CloseStep(j)
               /\ exitCode[j] > 0
               /\ \A e \in req[j].formats : ~existsSync(fs', OutFile(j, e)) )
             => /\ promise'[j].returned /\ ~promise'[j].success
                /\ ~HasCompleted(sent'[j])
                /\ Contains(promise'[j].error, stderr[j])
          /\ ( ReturnStep(j) /\ ~promise[j].success )
             => /\ result'[j].returned /\ ~result'[j].success
                /\ result'[j].error = promise[j].error
                /\ ~HasCompleted(sent'[j])
                /\ Last(sent'[j]).status = "Failed"
                /\ Last(sent'[j]).error = promise[j].error]_vars

\* a job whose engine printed to stderr, left nothing and exited nonzero has
\* been returned as a failure carrying that text
C5_Witness ==
    \E j \in Jobs :
        /\ pc[j] = "done"
        /\ exitCode[j] = 1
        /\ stderr[j] # << >>
        /\ \A e \in Exts : ~existsSync(fs, OutFile(j, e))
        /\ result[j] = Failure(<< "Transcription failed: " >> \o stderr[j])
        /\ Last(sent[j]).status = "Failed"

\* C6: the artifact paths a successful transcribe resolves with are exactly
\* the requested formats whose data this run's engine produced: srt iff
\* requested and produced, txt iff requested and produced, md iff requested
\* and txt produced.
C6_ArtifactsAreThisRuns ==
    [][\A j \in Jobs :
          ( CloseStep(j) /\ promise[j] = NoResult /\ promise'[j].success )
          => /\ (promise'[j].srtPath # Null) <=> ("srt" \in req[j].formats /\ "srt" \in produced[j])
             /\ (promise'[j].txtPath # Null) <=> ("txt" \in req[j].formats /\ "txt" \in produced[j])
             /\ (promise'[j].mdPath # Null) <=> ("md" \in req[j].formats /\ "txt" \in produced[j])]_vars

\* C7: when the 'close' handler has run, no vtt, tsv or json file of the job's
\* base name is left in the output directory, and no path the job resolves or
\* returns names a file of another format than its own field.
C7_NoAuxiliaryLeft ==
    [][\A j \in Jobs :
          /\ CloseStep(j)
             => /\ \A e \in Aux : ~existsSync(fs', OutFile(j, e))
                /\ \A e \in Formats : PathOf(promise'[j], e) \in {Null, OutFile(j, e)}
          /\ ReturnStep(j)
             => /\ \A e \in Aux : ~existsSync(fs', OutFile(j, e))
                /\ \A e \in Formats :
                      PathOf(result'[j], e) = Null \/ PathOf(result'[j], e).ext = e]_vars

\* the engine wrote all three auxiliary files, the handler has run and none
\* of them is left
C7_Witness ==
    \E j \in Jobs :
        /\ pc[j] \in {"settling", "done"}
        /\ Aux \subseteq produced[j]
        /\ \A e \in Aux : ~existsSync(fs, OutFile(j, e))

\* C8: when md is requested and the plaintext file is there at 'close', the md
\* file is written as title line, file name line, rule, then the plaintext
\* unchanged; when exactly srt and md are requested and the engine left srt
\* and txt, transcribe resolves with srt and md only and the txt is deleted.
C8_MarkdownSynthesized ==
    [][\A j \in Jobs :
          CloseStep(j) =>
             /\ ( "md" \in req[j].formats /\ existsSync(fs, OutFile(j, "txt")) )
                => fs'[OutFile(j, "md")] =
                      << "# Transcription", "**File:** " \o req[j].filePath, "---" >>
                         \o fs[OutFile(j, "txt")]
             /\ ( /\ promise[j] = NoResult
                  /\ req[j].formats = {"srt", "md"}
                  /\ existsSync(fs, OutFile(j, "srt"))
                  /\ existsSync(fs, OutFile(j, "txt")) )
                => /\ promise'[j].success
                   /\ promise'[j].srtPath = OutFile(j, "srt")
                   /\ promise'[j].mdPath = OutFile(j, "md")
                   /\ promise'[j].txtPath = Null
                   /\ ~existsSync(fs', OutFile(j, "txt"))]_vars

\* srt and md were requested, the engine wrote srt and txt, and the handler
\* left the srt and a markdown file wrapping this run's text
C8_Witness ==
    \E j \in Jobs :
        /\ pc[j] = "settling"
        /\ req[j].formats = {"srt", "md"}
        /\ {"srt", "txt"} \subseteq produced[j]
        /\ promise[j].success /\ promise[j].txtPath = Null
        /\ fs[OutFile(j, "md")] =
              << "# Transcription", "**File:** a.mp3", "---" >> \o EngineContent(j, "txt")
        /\ ~existsSync(fs, OutFile(j, "txt"))

Target(j, e) == File(req[j].outputDir, baseName(req[j].filePath), e)

\* C9: with a destination directory and a successful run, every artifact path
\* returned lies in the destination directory, the file exists there, and the
\* copy next to the source is gone.
C9_RelocatedToDestination ==
    [][\A j \in Jobs : \A e \in Formats :
          ( /\ ReturnStep(j)
            /\ req[j].outputDir # NoDir
            /\ result'[j].success
            /\ PathOf(result'[j], e) # Null )
          => /\ PathOf(result'[j], e) = Target(j, e)
             /\ existsSync(fs', Target(j, e))
             /\ OutFile(j, e) # Target(j, e) => ~existsSync(fs', OutFile(j, e))]_vars

\* the formats moved before e in the relocation pass
Before(e) == IF e = "srt" THEN {} ELSE IF e = "txt" THEN {"srt"} ELSE {"srt", "txt"}

\* C10: when the copy of an artifact fails, the job's result is a failure
\* carrying the error, the original of that artifact is still next to the
\* source, and every artifact moved earlier in the pass is still on disk at
\* its destination path.
C10_CopyFailureKeepsFiles ==
    [][\A j \in Jobs : \A e \in Formats :
          ( /\ ReturnStep(j)
            /\ promise[j].success
            /\ PathOf(promise[j], e) # Null
            /\ result'[j].error = CopyError(OutFile(j, e), Target(j, e)) )
          => /\ result'[j].returned /\ ~result'[j].success
             /\ Last(sent'[j]).error = result'[j].error
             /\ existsSync(fs', OutFile(j, e))
             /\ \A b \in Before(e) :
                   PathOf(promise[j], b) # Null => existsSync(fs', Target(j, b))]_vars

\* the job ran its own venv creation: its 'Setting up' status was sent
StartedSetup(q) ==
    \E i \in 1..Len(q) : q[i].status = "Setting up Python environment (first run)..."

\* the step in which job j's ensureEnvironment call is made, and the one in
\* which its provisioning (checks, venv, pip) runs
CallStep(j) == pc[j] = "invoked" /\ pc'[j] # "invoked"
ProvisionStep(j) == pc[j] = "mkdir" /\ pc'[j] # "mkdir"

\* C11: a call of ensureEnvironment made after an earlier call has installed
\* the environment does no prerequisite check and no installation: it leaves
\* the environment as it is, sends no setup status and returns at once, so
\* that transcribe goes on to 'Starting transcription...' in the same turn.
C11_SecondCallIsNoOp ==
    [][\A j \in Jobs :
          ( CallStep(j) /\ venv = "installed" )
          => /\ venv' = "installed"
             /\ pc'[j] # "mkdir"
             /\ ~StartedSetup(sent'[j])
             /\ sent'[j] # << >>
             /\ sent'[j][1].status = "Starting transcription..."]_vars

\* one job installed the environment, the other one started after it and
\* never ran a setup of its own
C11_Witness ==
    \E j, k \in Jobs :
        /\ j # k
        /\ StartedSetup(sent[j])
        /\ \E i \in 1..Len(sent[j]) : sent[j][i].status = "Starting transcription..."
        /\ venv = "installed"
        /\ pc[k] = "running"
        /\ ~StartedSetup(sent[k])

\* C12: of the jobs that call ensureEnvironment while no installation exists
\* only one runs a provisioning attempt: when a job starts its venv creation
\* no other job is inside an ensureEnvironment call of its own, and none has
\* installed the environment while this job was waiting.
C12_OneProvisioningAttempt ==
    [][\A k \in Jobs :
          ( ProvisionStep(k) /\ StartedSetup(sent'[k]) )
          => \A j \in Jobs \ {k} :
                /\ pc[j] # "mkdir"
                /\ ~(StartedSetup(sent[j]) /\ venv = "installed")]_vars

\* C13: when venv creation or the package install fails, the venv directory
\* is gone at the moment the error is surfaced, and a call of
\* ensureEnvironment never returns at its cached check for an environment
\* whose installation did not finish.
C13_FailedSetupRolledBack ==
    [][\A j \in Jobs :
          /\ ( ProvisionStep(j) /\ result'[j].error = SetupFailed )
             => venv' \in {"nodir", "absent"}
          /\ ( CallStep(j) /\ venv = "partial" )
             => pc'[j] = "mkdir"]_vars

Started(q) ==
    \E i \in 1..Len(q) : q[i].status \in {"Starting transcription...", "Transcribing..."}

\* C14: when python3 or ffmpeg is not found (provisioning ends before its
\* 'Setting up' status), the job is over in that turn: no 'Starting' or
\* 'Transcribing' event is sent, no child is spawned, no venv directory is
\* created, and the handler returns a failure whose message names the tool.
C14_MissingToolFailsEarly ==
    [][\A j \in Jobs :
          ( ProvisionStep(j) /\ ~StartedSetup(sent'[j]) )
          => /\ pc'[j] = "done"
             /\ ~Started(sent'[j])
             /\ exitCode'[j] = exitCode[j] /\ produced'[j] = {}
             /\ venv' = "absent"
             /\ result'[j].returned /\ ~result'[j].success
             /\ result'[j].error \in
                   { << "Python 3 not found. Please install Python 3.9+ from python.org or via Homebrew." >>,
                     << "FFmpeg not found. Residency requires FFmpeg for media processing. Please install it (e.g., brew install ffmpeg)." >> }
             /\ Last(sent'[j]).status = "Failed"
             /\ Last(sent'[j]).error = result'[j].error]_vars

\* a job that failed for want of ffmpeg, with no venv and no child
C14_Witness ==
    \E j \in Jobs :
        /\ pc[j] = "done"
        /\ venv = "absent"
        /\ ~Started(sent[j])
        /\ result[j] = Failure(FfmpegMissing)

C16_FailedIffError ==
    \A i \in 1..Len(jobs) :
        (jobs[i].status \in {"failed", "Failed"}) <=> (jobs[i].error # NoError)

\* C17: files submitted together are in flight together: no file of the
\* batch is still waiting to be registered while the engine of an earlier
\* file of the batch is running.
C17_BatchRunsTogether ==
    \A j \in Jobs :
        pc[j] = "pending" => \A i \in 1..(j - 1) : pc[i] # "running"

\* C18: a job whose engine process could not be launched is returned as a
\* failure carrying the launch error, a 'Failed' event with that error is
\* sent, and no 'Completed' (progress 100) event is ever sent for it, also
\* after the child's 'close'.
C18_LaunchFailureIsFinal ==
    \A j \in Jobs :
        result[j].error \in {SpawnError, LaunchError}
        => /\ result[j].returned /\ ~result[j].success
           /\ \E i \in 1..Len(sent[j]) :
                 sent[j][i].status = "Failed" /\ sent[j][i].error = result[j].error
           /\ ~HasCompleted(sent[j])

\* C19: when no requested artifact is on disk after the 'close' handler's
\* reconciliation, whatever the exit code, transcribe rejects and sends no
\* 'Completed' event: there is no successful result with an empty set of
\* artifacts.
C19_NoArtifactIsFailure ==
    [][\A j \in Jobs :
          /\ ( /\ CloseStep(j)
               /\ promise[j] = NoResult
               /\ \A e \in req[j].formats : ~existsSync(fs', OutFile(j, e)) )
             => /\ promise'[j].returned /\ ~promise'[j].success
                /\ ~HasCompleted(sent'[j])
          /\ ( ReturnStep(j) /\ result'[j].success )
             => \E e \in Formats : PathOf(result'[j], e) # Null]_vars

\* C20: for the formats of every request, the --output_format mode is 'all'
\* exactly when srt and (txt or md) are requested, 'srt' exactly when srt
\* alone is requested, 'txt' exactly when only txt and/or md are requested;
\* the files of that mode hold the data of every requested format (srt for
\* srt, txt for txt and for md), and the engine writes files of that mode only.
C20_OutputModeCoversRequest ==
    \A j \in Jobs :
        pc[j] \notin {"idle", "pending"}
        => LET f == req[j].formats
               m == outputFormat(f)
           IN  /\ (m = "all") <=> ("srt" \in f /\ ("txt" \in f \/ "md" \in f))
               /\ (m = "srt") <=> (f = {"srt"})
               /\ (m = "txt") <=> (f # {} /\ f \subseteq {"txt", "md"})
               /\ "srt" \in f => "srt" \in ModeFiles(m)
               /\ ("txt" \in f \/ "md" \in f) => "txt" \in ModeFiles(m)
               /\ produced[j] \subseteq ModeFiles(m)

\* subtitles and markdown were requested and the engine, run once in mode
\* 'all', wrote the srt and the txt among its files
C20_Witness ==
    \E j \in Jobs :
        /\ pc[j] = "exited"
        /\ req[j].formats = {"srt", "md"}
        /\ outputFormat(req[j].formats) = "all"
        /\ {"srt", "txt", "vtt"} \subseteq produced[j]

\* C21: when the 'close' handler has run, an srt or txt file of the job's
\* base name is next to the source only if that format was requested; the
\* relocation that follows does not bring one back.
C21_UnrequestedDeleted ==
    [][\A j \in Jobs : \A e \in {"srt", "txt"} :
          ( (CloseStep(j) \/ ReturnStep(j)) /\ existsSync(fs', OutFile(j, e)) )
          => e \in req[j].formats]_vars

\* markdown alone was requested, the engine wrote the txt it is made from,
\* and after the handler the md is there and the txt is not
C21_Witness ==
    \E j \in Jobs :
        /\ pc[j] \in {"settling", "done"}
        /\ req[j].formats = {"md"}
        /\ "txt" \in produced[j]
        /\ existsSync(fs, OutFile(j, "md"))
        /\ ~existsSync(fs, OutFile(j, "txt"))

\* the events whose progress is computed from a percentage the engine printed
EngineDerived(e) == e.status \in {"Transcribing... " \o ToString(matchPct(c)) \o "%" : c \in Chunks}

\* C22: every progress value sent for a job is a whole number from 0 to 100,
\* and a value computed from an engine percentage lies between 30 and 95.
C22_ProgressIsWholePercent ==
    \A j \in Jobs : \A i \in 1..Len(sent[j]) :
        /\ sent[j][i].progress % Scale = 0
        /\ sent[j][i].progress >= 0
        /\ sent[j][i].progress <= Pct(100)
        /\ EngineDerived(sent[j][i])
           => sent[j][i].progress >= Pct(30) /\ sent[j][i].progress <= Pct(95)

\* C23: a 'Transcribing... p%' event computed from the engine's stderr is
\* sent for a job only while its promise is pending and before any
\* 'Completed' event of that job.
C23_NoProgressAfterCompletion ==
    [][\A j \in Jobs :
          ( /\ Len(sent'[j]) > Len(sent[j])
            /\ \E i \in (Len(sent[j]) + 1)..Len(sent'[j]) : EngineDerived(sent'[j][i]) )
          => /\ promise[j] = NoResult
             /\ ~HasCompleted(sent[j])]_vars

\* a run whose engine percentages were all sent before its 'Completed'
C23_Witness ==
    \E j \in Jobs :
        /\ promise[j].success
        /\ Len(sent[j]) >= 2
        /\ Last(sent[j]).status = "Completed"
        /\ EngineDerived(sent[j][Len(sent[j]) - 1])

\* C24: a progress event taken by the renderer changes only the registry
\* job whose run emitted it; every other registry job, a job with the same
\* source path included, keeps its progress, status and error.
C24_EventReachesOwnJob ==
    [][( /\ chan # << >>
         /\ Head(chan).type = "progress"
         /\ chan' = Tail(chan) )
       => \A i \in 1..Len(jobs) :
             jobs[i].id # Head(chan).job => jobs'[i] = jobs[i]]_vars

\* C25: when the IPC handler returns a successful result, every artifact
\* path in it that is not null names a file that exists at that moment,
\* whatever the destination directory, the source's own directory included.
C25_ReportedArtifactsExist ==
    [][\A j \in Jobs :
          (ReturnStep(j) /\ result'[j].success)
          => \A e \in Formats :
                PathOf(result'[j], e) # Null => existsSync(fs', PathOf(result'[j], e))]_vars

\* C26: the finalization of a job touches only files of its own engine run:
\* every file its 'close' handler deletes was written by its own engine, and
\* when it resolves with success after a non-zero exit, a subtitle or
\* plaintext file of its own engine is on disk; this with two jobs in flight
\* whose sources share directory and base name.
C26_FinalizesOwnFilesOnly ==
    [][\A j \in Jobs :
          CloseStep(j)
          => /\ \A p \in Files :
                   (existsSync(fs, p) /\ ~existsSync(fs', p)) => fs[p] = EngineContent(j, p.ext)
             /\ (promise[j] = NoResult /\ promise'[j].success /\ exitCode[j] # 0)
                => \E e \in {"srt", "txt"} : fs[OutFile(j, e)] = EngineContent(j, e)]_vars

\* C27: once the engine process of a job has closed or failed to launch, the
\* IPC handler eventually returns a result for the job, and a result once
\* returned is never replaced; this also when a filesystem call of the
\* finalization throws or the window was closed during the run.
C27_EveryJobYieldsOneResult ==
    /\ \A j \in Jobs : (pc[j] = "exited") ~> result[j].returned
    /\ [][\A j \in Jobs : result[j].returned => result'[j] = result[j]]_vars

====
